---- MODULE Spec2Model ----
(***************************************************************************)
(* Model of the quiz routes of the AI dashboard backend                    *)
(* (src/routes/quizRoutes.js): the quiz store, POST / (create a quiz) and  *)
(* POST /:id/submit (grade a submission).                                  *)
(*                                                                         *)
(* JavaScript values are records [t, s, n]: t is the typeof, s the         *)
(* characters of a string as a tuple of character codes, n the value of a  *)
(* number.  Numbers produced by the division of line 168 are records       *)
(* [k, num, den]: a fraction in lowest terms, NaN or Infinity.  The        *)
(* fraction is exact where line 168 rounds to a double; the two agree on   *)
(* every comparison with the integer thresholds used here.                 *)
(*                                                                         *)
(* Quiz documents follow the Quiz model: questions and options are always  *)
(* arrays, correctAnswer is a string or undefined.  The store may hold     *)
(* documents that POST / would reject (a quiz without questions).          *)
(*                                                                         *)
(* The submit handler suspends once, at await Quiz.findById: it is three   *)
(* steps (SubmitBegin, QuizFindById, SubmitGrade).  POST / is one step:    *)
(* its awaits are not told apart, it only adds documents.                  *)
(***************************************************************************)
EXTENDS Integers, Sequences, FiniteSets

\* ------------------------------------------------------------------ bounds
MaxQuestions == 2

MaxAnswers == 2

MaxRequests == 2

\* ------------------------------------------------------- JavaScript values
Undefined == [t |-> "undefined", s |-> <<>>, n |-> 0]

JsString(chars) == [t |-> "string", s |-> chars, n |-> 0]

JsNumber(v) == [t |-> "number", s |-> <<>>, n |-> v]

\* ToBoolean: undefined, "" and 0 are falsy
Truthy(v) ==
    \/ v.t = "string" /\ v.s # <<>>
    \/ v.t = "number" /\ v.n # 0

\* String.prototype.toLowerCase on the characters: 'A'..'Z' -> 'a'..'z'
ToLowerCase(chars) ==
    [i \in 1..Len(chars) |->
        IF chars[i] \in 65..90 THEN chars[i] + 32 ELSE chars[i]]

\* the strings used as option texts, expected answers and user answers
StrPa == <<80, 97>>

StrLowerPa == <<112, 97>>

StrUpperPa == <<80, 65>>

StrPaSpace == <<80, 97, 32>>

StrLy == <<76, 121>>

\* ------------------------------------------------------------ JS numbers
NaN == [k |-> "NaN", num |-> 0, den |-> 1]

Infinity == [k |-> "Infinity", num |-> 0, den |-> 1]

RECURSIVE Gcd(_, _)
Gcd(a, b) == IF b = 0 THEN a ELSE Gcd(b, a % b)

Fraction(a, b) ==
    LET g == Gcd(a, b) IN [k |-> "finite", num |-> a \div g, den |-> b \div g]

\* a / b on non-negative integers: 0/0 is NaN, a/0 is Infinity
Divide(a, b) ==
    IF b = 0 THEN (IF a = 0 THEN NaN ELSE Infinity) ELSE Fraction(a, b)

\* x * m for a non-negative integer m > 0
Times(x, m) ==
    IF x.k = "finite" THEN Fraction(x.num * m, x.den) ELSE x

\* x >= p for an integer p: every comparison with NaN is false
GreaterOrEqual(x, p) ==
    \/ x.k = "Infinity"
    \/ x.k = "finite" /\ x.num >= p * x.den

\* JSON.stringify of a number: NaN and Infinity are written as null
JsonNull == [k |-> "null", num |-> 0, den |-> 1]

JsonNumber(x) == IF x.k = "finite" THEN x ELSE JsonNull

\* --------------------------------------------------------------- documents
QuestionIds == <<"q1", "q2", "q3", "q4">>

Option(text, isCorrect) == [text |-> JsString(text), isCorrect |-> isCorrect]

Question(id, type, options, correctAnswer) ==
    [id |-> id, type |-> type, questionText |-> id,
     options |-> options, correctAnswer |-> correctAnswer]

\* a findById that matches nothing resolves to null
NoQuiz == [null |-> TRUE]

\* req.body.answers when the body has no answers field
NoAnswers == [defined |-> FALSE, items |-> <<>>]

Answers(items) == [defined |-> TRUE, items |-> items]

\* an element of the answers array: null, or an object { questionId, userAnswer }
NullEntry == [null |-> TRUE]

Entry(questionId, userAnswer) ==
    [null |-> FALSE, questionId |-> questionId, userAnswer |-> userAnswer]

\* ------------------------------------------------------------------ grading
\* a lookup whose callback accepts the first element whatever its questionId
FindAnswerFirstEntry(answers, id) ==
    IF ~answers.defined
    THEN [threw |-> TRUE, userAnswer |-> Undefined]
    ELSE IF answers.items = <<>>
    THEN [threw |-> FALSE, userAnswer |-> Undefined]
    ELSE IF answers.items[1] = NullEntry
    THEN [threw |-> TRUE, userAnswer |-> Undefined]
    ELSE [threw |-> FALSE, userAnswer |-> answers.items[1].userAnswer]

\* answers.find(a => a.questionId === question.id)?.userAnswer
FindAnswer(answers, id) ==
    IF ~answers.defined
    THEN [threw |-> TRUE, userAnswer |-> Undefined]
    ELSE LET items == answers.items
             stop == {i \in 1..Len(items) :
                         items[i] = NullEntry \/ items[i].questionId = id}
         IN  IF stop = {}
             THEN [threw |-> FALSE, userAnswer |-> Undefined]
             ELSE LET first == CHOOSE i \in stop : \A j \in stop : i <= j
                  IN  IF items[first] = NullEntry
                      THEN [threw |-> TRUE, userAnswer |-> Undefined]
                      ELSE [threw |-> FALSE,
                            userAnswer |-> items[first].userAnswer]

\* question.options.find(opt => opt.isCorrect): <<>> when there is none
CorrectOption(options) ==
    LET hits == {i \in 1..Len(options) : options[i].isCorrect}
    IN  IF hits = {} THEN <<>>
        ELSE <<options[CHOOSE i \in hits : \A j \in hits : i <= j]>>

\* a comparison of the lowercased texts instead of ===
ChoiceMatchesIgnoringCase(userAnswer, text) ==
    /\ userAnswer.t = "string"
    /\ ToLowerCase(userAnswer.s) = ToLowerCase(text.s)

\* userAnswer === correctOption.text
ChoiceMatches(userAnswer, text) == userAnswer = text

\* a comparison with === instead of the lowercased texts
ShortAnswerMatchesExactly(userAnswer, correctAnswer) ==
    [threw |-> FALSE, isCorrect |-> userAnswer = correctAnswer]

\* userAnswer && userAnswer.toLowerCase() === question.correctAnswer.toLowerCase()
ShortAnswerMatches(userAnswer, correctAnswer) ==
    IF ~Truthy(userAnswer)
    THEN [threw |-> FALSE, isCorrect |-> FALSE]
    ELSE IF userAnswer.t # "string"
    THEN [threw |-> TRUE, isCorrect |-> FALSE]
    ELSE [threw |-> FALSE,
          isCorrect |-> ToLowerCase(userAnswer.s) = ToLowerCase(correctAnswer.s)]

\* the type dispatch of one question, given the looked-up userAnswer
GradeQuestion(question, userAnswer) ==
    IF question.type \in {"multiple-choice", "true-false"}
    THEN LET correctOption == CorrectOption(question.options)
         IN  IF correctOption # <<>>
             THEN [threw |-> FALSE,
                   isCorrect |-> ChoiceMatches(userAnswer, correctOption[1].text),
                   correctAnswerText |-> correctOption[1].text]
             ELSE [threw |-> FALSE, isCorrect |-> FALSE,
                   correctAnswerText |-> JsString(<<>>)]
    ELSE IF question.type = "short-answer"
    THEN IF Truthy(question.correctAnswer)
         THEN LET m == ShortAnswerMatches(userAnswer, question.correctAnswer)
              IN  [threw |-> m.threw, isCorrect |-> m.isCorrect,
                   correctAnswerText |-> question.correctAnswer]
         ELSE [threw |-> FALSE, isCorrect |-> FALSE,
               correctAnswerText |-> JsString(<<>>)]
    ELSE [threw |-> FALSE, isCorrect |-> FALSE,
          correctAnswerText |-> JsString(<<>>)]

\* the entry pushed to results for one question
ResultEntry(question, userAnswer, graded) ==
    [questionId |-> question.id, questionText |-> question.questionText,
     userAnswer |-> userAnswer, correctAnswer |-> graded.correctAnswerText,
     isCorrect |-> graded.isCorrect]

\* quiz.questions.forEach(...): the loop from question i on, with the score
\* and the results so far; a throw leaves the loop
RECURSIVE GradeLoop(_, _, _, _, _)
GradeLoop(questions, answers, i, score, results) ==
    IF i > Len(questions)
    THEN [threw |-> FALSE, score |-> score, results |-> results]
    ELSE LET found == FindAnswer(answers, questions[i].id)
             graded == GradeQuestion(questions[i], found.userAnswer)
         IN  IF found.threw \/ graded.threw
             THEN [threw |-> TRUE, score |-> score, results |-> results]
             ELSE GradeLoop(questions, answers, i + 1,
                      IF graded.isCorrect THEN score + 1 ELSE score,
                      Append(results,
                          ResultEntry(questions[i], found.userAnswer, graded)))

\* the ratio without the factor 100
PercentageUnscaled(score, totalQuestions) == Divide(score, totalQuestions)

\* (score / totalQuestions) * 100
Percentage(score, totalQuestions) == Times(Divide(score, totalQuestions), 100)

\* > instead of >=
PassedStrictly(percentage, passPercentage) ==
    \/ percentage.k = "Infinity"
    \/ percentage.k = "finite"
          /\ percentage.num > passPercentage * percentage.den

\* percentage >= quiz.passPercentage
Passed(percentage, passPercentage) == GreaterOrEqual(percentage, passPercentage)

ErrorResponse(status, message) == [status |-> status, message |-> message]

\* the try block after the quiz was found, and its catch
GradeSubmission(quiz, answers) ==
    LET totalQuestions == Len(quiz.questions)
        loop == GradeLoop(quiz.questions, answers, 1, 0, <<>>)
        percentage == Percentage(loop.score, totalQuestions)
    IN  IF loop.threw
        THEN ErrorResponse(500, "Server error submitting quiz")
        ELSE [status |-> 200, message |-> "Quiz submitted successfully!",
              score |-> loop.score, totalQuestions |-> totalQuestions,
              percentage |-> JsonNumber(percentage),
              passed |-> Passed(percentage, quiz.passPercentage),
              results |-> loop.results]

\* -------------------------------------------------------------------- state
VARIABLES
    quizzes,        \* the Quiz collection: _id -> document, NoQuiz when absent
    courseQuizzes,  \* the Course collection: course id -> its quizzes array
    req             \* the submit requests in flight: their inputs, the
                    \* continuation they wait in, the fetched quiz, the response

vars == <<quizzes, courseQuizzes, req>>

Requests == 1..MaxRequests

\* strings that mongoose.Types.ObjectId.isValid accepts
ObjectIds == {"id1", "id2"}

PathIds == ObjectIds \cup {"bad"}

CourseIds == {"web-dev"}

IsValidObjectId(id) == id \in ObjectIds

NoResponse == [status |-> 0, message |-> ""]

IdleRequest ==
    [pc |-> "idle", quizId |-> "", answers |-> NoAnswers,
     quiz |-> NoQuiz, res |-> NoResponse]

SeqsUpTo(S, n) == UNION {[1..k -> S] : k \in 0..n}

\* ------------------------------------------------------------ store (POST /)
\* router.post('/'): validation, Course.findOne, newQuiz.save(),
\* course.quizzes.push, course.save(); rejected requests change nothing
CreateQuiz(title, courseId, questions, passPercentage) ==
    /\ title # "" /\ courseId # "" /\ Len(questions) # 0
    /\ courseId \in DOMAIN courseQuizzes
    /\ \E newId \in ObjectIds :
          /\ quizzes[newId] = NoQuiz
          /\ quizzes' = [quizzes EXCEPT ![newId] =
                 [questions |-> questions, passPercentage |-> passPercentage]]
          /\ courseQuizzes' = [courseQuizzes EXCEPT ![courseId] = Append(@, newId)]
    /\ UNCHANGED req

\* ------------------------------------------------- submit (POST /:id/submit)
\* lines 111-122: the request arrives, the id is validated, findById is issued
SubmitBegin(r, quizId, answers) ==
    /\ req[r].pc = "idle"
    /\ req' = [req EXCEPT ![r] =
          IF ~IsValidObjectId(quizId)
          THEN [@ EXCEPT !.pc = "done", !.quizId = quizId, !.answers = answers,
                   !.res = ErrorResponse(400, "Invalid quiz ID format provided.")]
          ELSE [@ EXCEPT !.pc = "findById", !.quizId = quizId,
                   !.answers = answers]]
    /\ UNCHANGED <<quizzes, courseQuizzes>>

\* line 122: the store answers Quiz.findById(quizId)
QuizFindById(r) ==
    /\ req[r].pc = "findById"
    /\ req' = [req EXCEPT ![r] =
          [@ EXCEPT !.pc = "found", !.quiz = quizzes[req[r].quizId]]]
    /\ UNCHANGED <<quizzes, courseQuizzes>>

\* a continuation that also saves the attempt on the stored quiz
SubmitGradeRecording(r) ==
    /\ req[r].pc = "found"
    /\ LET res == IF req[r].quiz = NoQuiz
                  THEN ErrorResponse(404, "Quiz not found")
                  ELSE GradeSubmission(req[r].quiz, req[r].answers)
       IN  /\ req' = [req EXCEPT ![r] = [@ EXCEPT !.pc = "done", !.res = res]]
           /\ quizzes' =
                 IF req[r].quiz = NoQuiz THEN quizzes
                 ELSE [quizzes EXCEPT ![req[r].quizId] =
                          [questions |-> req[r].quiz.questions,
                           passPercentage |-> req[r].quiz.passPercentage,
                           attempts |-> <<res.status>>]]
    /\ UNCHANGED courseQuizzes

\* lines 123-185: the continuation after the await, run to the response
SubmitGrade(r) ==
    /\ req[r].pc = "found"
    /\ req' = [req EXCEPT ![r] =
          [@ EXCEPT !.pc = "done",
              !.res = IF req[r].quiz = NoQuiz
                      THEN ErrorResponse(404, "Quiz not found")
                      ELSE GradeSubmission(req[r].quiz, req[r].answers)]]
    /\ UNCHANGED <<quizzes, courseQuizzes>>

\* ------------------------------------------------------------ input domains
PassPercentages == {0, 50, 100}

QuizDoc(questions, passPercentage) ==
    [questions |-> questions, passPercentage |-> passPercentage]

\* question shapes of the quiz-level specification
GradeShape(id, shape) ==
    CASE shape = "choice" ->
            Question(id, "multiple-choice",
                <<Option(StrPa, TRUE), Option(StrLy, FALSE)>>, Undefined)
      [] shape = "short" ->
            Question(id, "short-answer", <<>>, JsString(StrPa))
      [] OTHER ->
            Question(id, "essay", <<Option(StrPa, TRUE)>>, JsString(StrPa))

GradeShapes == {"choice", "short", "essay"}

\* quizzes of 0..MaxQuestions questions, ids in ascending or descending order
GradeQuizzes ==
    {QuizDoc([i \in 1..n |->
                 GradeShape(QuestionIds[IF up THEN i ELSE n + 1 - i], shapes[i])],
             p) :
        <<n, shapes, up, p>> \in
            {<<n, shapes, up, p>> \in
                (0..MaxQuestions) \X SeqsUpTo(GradeShapes, MaxQuestions)
                    \X BOOLEAN \X PassPercentages :
                Len(shapes) = n}}

\* (null elements are inputs of the question-level specification)
GradeEntries ==
    {Entry(id, ua) : id \in {"q1", "q2"},
                     ua \in {JsString(StrPa), JsString(StrLowerPa), JsNumber(42)}}

GradeBodies ==
    {NoAnswers} \cup {Answers(items) : items \in SeqsUpTo(GradeEntries, MaxAnswers)}

\* question shapes of the question-level specification: every type with every
\* option list and every expected answer
OptionLists ==
    { <<>>,
      <<Option(StrLy, FALSE)>>,
      <<Option(StrPa, TRUE), Option(StrLy, FALSE)>>,
      <<Option(StrLy, FALSE), Option(StrLowerPa, TRUE), Option(StrPa, TRUE)>> }

QuestionTypes == {"multiple-choice", "true-false", "short-answer", "essay"}

ExpectedAnswers == {Undefined, JsString(<<>>), JsString(StrPa)}

QuestionQuizzes ==
    {QuizDoc(<<Question("q1", type, options, expected)>>, 50) :
        type \in QuestionTypes, options \in OptionLists,
        expected \in ExpectedAnswers}

UserAnswers ==
    {Undefined, JsString(<<>>), JsString(StrPa), JsString(StrLowerPa),
     JsString(StrUpperPa), JsString(StrPaSpace), JsString(StrLy),
     JsNumber(42), JsNumber(0)}

QuestionBodies ==
    {NoAnswers, Answers(<<>>), Answers(<<NullEntry>>)} \cup
    {Answers(<<Entry(id, ua)>>) : id \in {"q1", "q2"}, ua \in UserAnswers}

\* inputs of the concurrent specification
ServerQuizzes ==
    {QuizDoc(<<GradeShape("q1", "choice")>>, 50),
     QuizDoc(<<GradeShape("q1", "short"), GradeShape("q2", "choice")>>, 100)}

ServerBodies ==
    {Answers(<<Entry("q1", JsString(StrPa))>>),
     Answers(<<Entry("q2", JsString(StrPa)), Entry("q1", JsString(StrUpperPa))>>)}

\* ----------------------------------------------------------- specifications
\* the server: a seeded store, quizzes being created, requests interleaving
Init ==
    /\ \E q \in ServerQuizzes :
          quizzes = [id \in ObjectIds |-> IF id = "id1" THEN q ELSE NoQuiz]
    /\ courseQuizzes = [c \in CourseIds |-> <<"id1">>]
    /\ req = [r \in Requests |-> IdleRequest]

Next ==
    \/ \E q \in ServerQuizzes, c \in CourseIds \cup {"", "unknown"},
          t \in {"", "Quiz"} :
          CreateQuiz(t, c, q.questions, q.passPercentage)
    \/ \E r \in Requests, id \in PathIds, a \in ServerBodies :
          SubmitBegin(r, id, a)
    \/ \E r \in Requests : QuizFindById(r)
    \/ \E r \in Requests : SubmitGrade(r)

Spec == Init /\ [][Next]_vars

\* one submission against one stored quiz, over the quiz-level inputs
InitGrade ==
    /\ \E q \in GradeQuizzes :
          quizzes = [id \in ObjectIds |-> IF id = "id1" THEN q ELSE NoQuiz]
    /\ courseQuizzes = [c \in CourseIds |-> <<"id1">>]
    /\ req = [r \in Requests |-> IdleRequest]

NextGrade ==
    \/ \E id \in PathIds, a \in GradeBodies : SubmitBegin(1, id, a)
    \/ QuizFindById(1)
    \/ SubmitGrade(1)

SpecGrade == InitGrade /\ [][NextGrade]_vars

\* one submission against a one-question quiz, over the question-level inputs
InitQuestion ==
    /\ \E q \in QuestionQuizzes :
          quizzes = [id \in ObjectIds |-> IF id = "id1" THEN q ELSE NoQuiz]
    /\ courseQuizzes = [c \in CourseIds |-> <<"id1">>]
    /\ req = [r \in Requests |-> IdleRequest]

NextQuestion ==
    \/ \E id \in PathIds, a \in QuestionBodies : SubmitBegin(1, id, a)
    \/ QuizFindById(1)
    \/ SubmitGrade(1)

SpecQuestion == InitQuestion /\ [][NextQuestion]_vars

\* ------------------------------------------------ vocabulary of the claims
\* request r got past the 404 check: its response comes from the grading code
Graded(r) == req[r].pc = "done" /\ req[r].quiz # NoQuiz

Returned(r) == Graded(r) /\ req[r].res.status = 200

\* the answers are an array whose elements are all objects
EntryObjects(answers) ==
    /\ answers.defined
    /\ \A i \in 1..Len(answers.items) : answers.items[i] # NullEntry

HasEntryFor(answers, id) ==
    \E i \in 1..Len(answers.items) : answers.items[i].questionId = id

KnownTypes == {"multiple-choice", "true-false", "short-answer"}

EmptyString == JsString(<<>>)

\* equality of two strings up to the case of their letters, character by
\* character
EqualIgnoringCase(a, b) ==
    /\ Len(a) = Len(b)
    /\ \A i \in 1..Len(a) :
          \/ a[i] = b[i]
          \/ a[i] \in 65..90 /\ b[i] = a[i] + 32
          \/ b[i] \in 65..90 /\ a[i] = b[i] + 32

Permutations(n) ==
    {p \in [1..n -> 1..n] : \A i, j \in 1..n : p[i] = p[j] => i = j}

DistinctQuestionIds(answers) ==
    /\ EntryObjects(answers)
    /\ \A i, j \in 1..Len(answers.items) :
          answers.items[i].questionId = answers.items[j].questionId => i = j

\* ----------------------------------------------------------------- claims
\* C1: a quiz without questions is graded score = 0, totalQuestions = 0,
\* percentage = 0 and passed = false.  The code answers percentage NaN
\* (null in the JSON body): 0 / 0 at line 168.
C1_ZeroQuestions ==
    \A r \in Requests :
        Graded(r) /\ Len(req[r].quiz.questions) = 0 =>
            /\ req[r].res.status = 200
            /\ req[r].res.score = 0
            /\ req[r].res.totalQuestions = 0
            /\ req[r].res.percentage = Fraction(0, 1)
            /\ req[r].res.passed = FALSE

\* C2: in every returned result 0 <= score <= totalQuestions, totalQuestions
\* is the number of questions of the quiz, score is the number of result
\* entries with isCorrect = true, and with totalQuestions > 0 the percentage
\* is score / totalQuestions * 100.
C2_ScoreAndPercentage ==
    \A r \in Requests :
        Returned(r) =>
            LET res == req[r].res IN
            /\ res.totalQuestions = Len(req[r].quiz.questions)
            /\ 0 <= res.score /\ res.score <= res.totalQuestions
            /\ res.score =
                  Cardinality({i \in 1..Len(res.results) : res.results[i].isCorrect})
            /\ res.totalQuestions > 0 =>
                  /\ res.percentage.k = "finite"
                  /\ res.percentage.num * res.totalQuestions
                        = res.score * 100 * res.percentage.den

C2_Witness ==
    \E r \in Requests :
        /\ Returned(r)
        /\ req[r].res.totalQuestions = 2
        /\ req[r].res.score = 1

\* C3: for a quiz with passPercentage in [0,100], the returned passed flag is
\* true exactly when the returned percentage is a number greater than or
\* equal to passPercentage.
C3_PassedIffThreshold ==
    \A r \in Requests :
        Returned(r) /\ req[r].quiz.passPercentage \in 0..100 =>
            LET res == req[r].res IN
            res.passed <=>
                /\ res.percentage.k = "finite"
                /\ res.percentage.num >= req[r].quiz.passPercentage * res.percentage.den

C3_Witness ==
    \E r \in Requests :
        /\ Returned(r)
        /\ req[r].quiz.passPercentage = 50
        /\ req[r].res.percentage = Fraction(50, 1)
        /\ req[r].res.passed

\* C4: the returned results have one entry per question, the i-th carrying
\* the id of the i-th question, and submitting the same answers (distinct
\* questionIds) in any other order returns the same results.
C4_ResultsFollowQuizOrder ==
    \A r \in Requests :
        Returned(r) =>
            LET res == req[r].res
                questions == req[r].quiz.questions
                items == req[r].answers.items
            IN
            /\ Len(res.results) = res.totalQuestions
            /\ Len(res.results) = Len(questions)
            /\ \A i \in 1..Len(questions) :
                  res.results[i].questionId = questions[i].id
            /\ DistinctQuestionIds(req[r].answers) =>
                  \A p \in Permutations(Len(items)) :
                      LET again == GradeSubmission(req[r].quiz,
                                       Answers([i \in 1..Len(items) |-> items[p[i]]]))
                      IN  again.status = 200 /\ again.results = res.results

C4_Witness ==
    \E r \in Requests :
        /\ Returned(r)
        /\ Len(req[r].quiz.questions) = 2
        /\ Len(req[r].answers.items) = 2
        /\ DistinctQuestionIds(req[r].answers)
        /\ req[r].answers.items[1].questionId = req[r].quiz.questions[2].id
        /\ req[r].answers.items[2].questionId = req[r].quiz.questions[1].id
        /\ req[r].res.results[1].isCorrect
        /\ ~req[r].res.results[2].isCorrect

\* C5: a multiple-choice or true-false question with a correct option
\* reports the text of the first such option as correctAnswer and is correct
\* exactly when userAnswer is that text, character for character (so not
\* when it differs in case); without a correct option it is incorrect with
\* an empty correctAnswer.
C5_ChoiceExactMatch ==
    \A r \in Requests :
        Returned(r) =>
            \A i \in 1..Len(req[r].quiz.questions) :
                LET q == req[r].quiz.questions[i]
                    e == req[r].res.results[i]
                    ua == FindAnswer(req[r].answers, q.id).userAnswer
                    hits == {j \in 1..Len(q.options) : q.options[j].isCorrect}
                IN  q.type \in {"multiple-choice", "true-false"} =>
                        /\ e.userAnswer = ua
                        /\ IF hits # {}
                           THEN \E j \in hits :
                                   /\ \A k \in hits : j <= k
                                   /\ e.correctAnswer = q.options[j].text
                                   /\ e.isCorrect <=>
                                         (ua.t = "string" /\ ua.s = q.options[j].text.s)
                                   /\ (ua.t = "string" /\ ua.s # q.options[j].text.s
                                         /\ EqualIgnoringCase(ua.s, q.options[j].text.s))
                                      => ~e.isCorrect
                           ELSE ~e.isCorrect /\ e.correctAnswer = EmptyString

\* a question with two correct options, answered with the text of the second
\* one, which differs from the first only in case
C5_Witness ==
    \E r \in Requests :
        /\ Returned(r)
        /\ LET q == req[r].quiz.questions[1]
               e == req[r].res.results[1]
           IN  /\ q.type = "multiple-choice"
               /\ Len(q.options) = 3
               /\ e.correctAnswer = JsString(StrLowerPa)
               /\ e.userAnswer = JsString(StrPa)
               /\ ~e.isCorrect

\* C6: a short-answer question with a correctAnswer is correct exactly when
\* userAnswer is present and equals correctAnswer up to letter case, nothing
\* trimmed; without a correctAnswer it is always incorrect.
C6_ShortAnswerIgnoresCase ==
    \A r \in Requests :
        Returned(r) =>
            \A i \in 1..Len(req[r].quiz.questions) :
                LET q == req[r].quiz.questions[i]
                    e == req[r].res.results[i]
                    ua == FindAnswer(req[r].answers, q.id).userAnswer
                IN  q.type = "short-answer" =>
                        /\ e.userAnswer = ua
                        /\ IF Truthy(q.correctAnswer)
                           THEN e.isCorrect <=>
                                   /\ Truthy(ua)
                                   /\ ua.t = "string"
                                   /\ EqualIgnoringCase(ua.s, q.correctAnswer.s)
                           ELSE ~e.isCorrect

\* the expected answer in another case is correct
C6_Witness ==
    \E r \in Requests :
        /\ Returned(r)
        /\ LET q == req[r].quiz.questions[1]
               e == req[r].res.results[1]
           IN  /\ q.type = "short-answer"
               /\ q.correctAnswer = JsString(StrPa)
               /\ e.userAnswer = JsString(StrUpperPa)
               /\ e.isCorrect

\* C7: a question without a matching entry in the submitted answers is
\* graded incorrect with an absent userAnswer, and the grading completes
\* with a result, not an error.  Stated for answers that are an array of
\* objects.
C7_MissingAnswer ==
    \A r \in Requests :
        Graded(r) /\ EntryObjects(req[r].answers) =>
            \A i \in 1..Len(req[r].quiz.questions) :
                ~HasEntryFor(req[r].answers, req[r].quiz.questions[i].id) =>
                    /\ req[r].res.status = 200
                    /\ ~req[r].res.results[i].isCorrect
                    /\ req[r].res.results[i].userAnswer = Undefined

\* C8: a submission that reaches the grading loop ends with the graded
\* result (200), never with the 500 response.  Stated for answers that are
\* an array of objects.
C8_GradingNeverFails ==
    \A r \in Requests :
        Graded(r) /\ EntryObjects(req[r].answers) => req[r].res.status = 200

\* C9: every response is the grading of the request's own quiz and answers,
\* whatever the other requests do; equal inputs get equal responses; the
\* step that grades changes nothing in the store.
C9_IndependentAndStateless ==
    [][ /\ \A r \in Requests :
              (req'[r].pc = "done" /\ req'[r].quiz # NoQuiz) =>
                  req'[r].res =
                      GradeSubmission(quizzes'[req'[r].quizId], req'[r].answers)
        /\ \A r1, r2 \in Requests :
              (/\ req'[r1].pc = "done" /\ req'[r2].pc = "done"
               /\ req'[r1].quiz = req'[r2].quiz
               /\ req'[r1].quizId = req'[r2].quizId
               /\ req'[r1].answers = req'[r2].answers)
              => req'[r1].res = req'[r2].res
        /\ (\E r \in Requests : req[r].pc = "found" /\ req'[r].pc = "done")
              => UNCHANGED <<quizzes, courseQuizzes>>
      ]_vars

\* two requests for the same quiz with different answers are both graded,
\* differently, while another quiz was created
C9_Witness ==
    \E r1, r2 \in Requests :
        /\ r1 # r2
        /\ req[r1].res.status = 200 /\ req[r2].res.status = 200
        /\ req[r1].quizId = req[r2].quizId
        /\ req[r1].answers # req[r2].answers
        /\ req[r1].res.score # req[r2].res.score
        /\ \A id \in ObjectIds : quizzes[id] # NoQuiz

\* C10: a question of any other type is graded incorrect with an empty
\* correctAnswer, has its entry in the results and counts in totalQuestions,
\* and no error is raised.  Stated for answers that are an array of objects.
C10_UnknownType ==
    \A r \in Requests :
        Graded(r) /\ EntryObjects(req[r].answers) =>
            \A i \in 1..Len(req[r].quiz.questions) :
                req[r].quiz.questions[i].type \notin KnownTypes =>
                    /\ req[r].res.status = 200
                    /\ req[r].res.totalQuestions = Len(req[r].quiz.questions)
                    /\ Len(req[r].res.results) = Len(req[r].quiz.questions)
                    /\ ~req[r].res.results[i].isCorrect
                    /\ req[r].res.results[i].correctAnswer = EmptyString

====
